---------------------------- MODULE Spec2Model ----------------------------
(***************************************************************************)
(* Model of the VEML7700 driver cl_VEML7700 (src/mkigor_veml.cpp,          *)
(* src/mkigor_veml.h): the device's registers, the public operations       *)
(* check(), sleep(), wakeUp() and the auto-ranging readAW(), the latter    *)
(* one action per bus access so that the order of accesses is observable.  *)
(***************************************************************************)
EXTENDS Integers, Sequences, FiniteSets, TLC

(***************************************************************************)
(* Bounds of the model.                                                    *)
(***************************************************************************)
\* public calls (check, sleep, wakeUp, readAW) made in one behaviour
MaxCalls == 2
\* bus accesses of readReg/writeReg that fail in one behaviour of SpecBus
MaxFaults == 1
\* delaySum counts up to here: beyond it the sum is only known to be larger
\* than 3000 ms
MaxSum == 3001

(***************************************************************************)
(* Program constants.                                                      *)
(***************************************************************************)
lvc_nGain == 4
lvc_nTime == 6
\* for (uint8_t k = 0; k < 24; k++)
MaxIter == 24
\* raw ALS data is accepted in 1000 .. 10000
AlsLow == 1000
AlsHigh == 10000
\* 0xE43F, zero mask for gain & time
ConfMask == 58431
\* 0x1000, the configuration check() writes
ConfInit == 4096
\* the constructor's i2c address 0x10
DefaultAddr == 16

lvc_ALSgain == [i \in 0..3 |-> <<2, 3, 0, 1>>[i + 1]]
lvc_ALStime == [i \in 0..5 |-> <<12, 8, 0, 1, 2, 3>>[i + 1]]
lvc_ALSdelay == [i \in 0..5 |-> <<25, 50, 100, 200, 400, 800>>[i + 1]]
\* lvc_tableResol[g][t] in units of 0.0042: every entry is 0.0042 * 2^j
ResolMult == [g \in 0..3 |-> [t \in 0..5 |->
                <<<<512, 256, 128, 64, 32, 16>>,
                  <<256, 128, 64, 32, 16, 8>>,
                  <<64, 32, 16, 8, 4, 2>>,
                  <<32, 16, 8, 4, 2, 1>>>>[g + 1][t + 1]]]

(***************************************************************************)
(* Inputs: what the sensor and the bus can supply.                         *)
(***************************************************************************)
\* raw counts of the ALS channel (16 bit)
AlsCounts == {999, 1000, 7500, 10000, 10001, 50000}
\* raw counts of the WHITE channel (16 bit)
WhiteCounts == {0, 65535}
\* the bits of ALS_CONF outside ALS_GAIN<12:11> and ALS_IT<9:6> when the
\* driver starts: none set, all set
ConfOther == {0, 58431}
InitConf == {o + 2048 * g + 64 * t : o \in ConfOther, g \in 0..3, t \in 0..15}
\* the registers <<ALS_CONF, PSM>> when the driver starts: any configuration
\* with power saving off, two with power saving on
InitDevice == {<<c, 0>> : c \in InitConf} \cup {<<0, 7>>, <<65535, 7>>}
\* what readReg returns when the transfer failed: Wire.read() on an empty
\* buffer gives -1 for both bytes, a stale buffer anything; two samples
BusGarbage == {0, 65535}
IdLsb == {129}
IdMsb == {196, 212}
I2cAddrs == {16}

(***************************************************************************)
(* 16-bit arithmetic.                                                      *)
(***************************************************************************)
\* the element of a one-element set: { F(x) : x \in {e} } binds x to the
\* value of e, which is then computed once
The(S) == CHOOSE r \in S : TRUE

RECURSIVE Pow2(_)
Pow2(n) == IF n = 0 THEN 1 ELSE 2 * Pow2(n - 1)

RECURSIVE BitAnd(_, _, _)
BitAnd(a, b, n) ==
    IF n = 0 THEN 0
    ELSE (IF a % 2 = 1 /\ b % 2 = 1 THEN 1 ELSE 0)
         + 2 * BitAnd(a \div 2, b \div 2, n - 1)

RECURSIVE BitOr(_, _, _)
BitOr(a, b, n) ==
    IF n = 0 THEN 0
    ELSE (IF a % 2 = 1 \/ b % 2 = 1 THEN 1 ELSE 0)
         + 2 * BitOr(a \div 2, b \div 2, n - 1)

And16(a, b) == The({BitAnd(x, y, 16) : x \in {a}, y \in {b}})
Or16(a, b) == The({BitOr(x, y, 16) : x \in {a}, y \in {b}})
Shl16(a, n) == (a * Pow2(n)) % 65536
Bit(x, n) == (x \div Pow2(n)) % 2


(***************************************************************************)
(* Pure parts of readAW().                                                 *)
(***************************************************************************)
\* for (i = 0; i < n; i++) if (code == tbl[i]) idx = i;   from position i on
RECURSIVE FindFrom(_, _, _, _, _)
FindFrom(tbl, n, code, i, idx) ==
    IF i >= n THEN idx
    ELSE FindFrom(tbl, n, code, i + 1, IF code = tbl[i] THEN i ELSE idx)

\* the search loop stopping one entry early: i < n - 1
FindIndex_SkipsLast(tbl, n, code, prev) == FindFrom(tbl, n - 1, code, 0, prev)

\* the index of code in tbl, or prev (the value the index variable held)
FindIndex(tbl, n, code, prev) == FindFrom(tbl, n, code, 0, prev)

GainField(conf) == (conf \div 2048) % 4
TimeField(conf) == (conf \div 64) % 16

\* the acceptance test with its bounds taken exclusive
InRange_Exclusive(als) == als > AlsLow /\ als < AlsHigh

InRange(als) == als >= AlsLow /\ als <= AlsHigh

\* uint8_t ++ and --
Inc8(x) == (x + 1) % 256
Dec8(x) == (x + 255) % 256

\* lines 182-191 without the last rule of either branch: the time index
\* never leaves the 100 ms tier once the gain is at its end
Adjust_NoLastRule(als, g, t) ==
    IF als < AlsLow THEN
        IF t < 2 THEN <<g, 2>>
        ELSE IF g < lvc_nGain - 1 THEN <<Inc8(g), t>>
        ELSE <<g, t>>
    ELSE IF als > AlsHigh THEN
        IF t > 2 THEN <<g, Dec8(t)>>
        ELSE IF g # 0 THEN <<Dec8(g), t>>
        ELSE <<g, t>>
    ELSE <<g, t>>

\* lines 182-191 with the last rule of the second branch unguarded: the time
\* index is decremented whatever it holds
Adjust_Unguarded(als, g, t) ==
    IF als < AlsLow THEN
        IF t < 2 THEN <<g, 2>>
        ELSE IF g < lvc_nGain - 1 THEN <<Inc8(g), t>>
        ELSE IF t < lvc_nTime - 1 THEN <<g, Inc8(t)>>
        ELSE <<g, t>>
    ELSE IF als > AlsHigh THEN
        IF t > 2 THEN <<g, Dec8(t)>>
        ELSE IF g # 0 THEN <<Dec8(g), t>>
        ELSE <<g, Dec8(t)>>
    ELSE <<g, t>>

\* lines 182-186 with the first two tests in the other order: the gain
\* before the time index
Adjust_LowGainFirst(als, g, t) ==
    IF als < AlsLow THEN
        IF g < lvc_nGain - 1 THEN <<Inc8(g), t>>
        ELSE IF t < 2 THEN <<g, 2>>
        ELSE IF t < lvc_nTime - 1 THEN <<g, Inc8(t)>>
        ELSE <<g, t>>
    ELSE IF als > AlsHigh THEN
        IF t > 2 THEN <<g, Dec8(t)>>
        ELSE IF g # 0 THEN <<Dec8(g), t>>
        ELSE IF t # 0 THEN <<g, Dec8(t)>>
        ELSE <<g, t>>
    ELSE <<g, t>>

\* lines 187-191 with the first rule written like line 183: the time index
\* set to 2 at once
Adjust_HighJumps(als, g, t) ==
    IF als < AlsLow THEN
        IF t < 2 THEN <<g, 2>>
        ELSE IF g < lvc_nGain - 1 THEN <<Inc8(g), t>>
        ELSE IF t < lvc_nTime - 1 THEN <<g, Inc8(t)>>
        ELSE <<g, t>>
    ELSE IF als > AlsHigh THEN
        IF t > 2 THEN <<g, 2>>
        ELSE IF g # 0 THEN <<Dec8(g), t>>
        ELSE IF t # 0 THEN <<g, Dec8(t)>>
        ELSE <<g, t>>
    ELSE <<g, t>>

\* lines 187-191 with the first two tests in the other order
Adjust_HighGainFirst(als, g, t) ==
    IF als < AlsLow THEN
        IF t < 2 THEN <<g, 2>>
        ELSE IF g < lvc_nGain - 1 THEN <<Inc8(g), t>>
        ELSE IF t < lvc_nTime - 1 THEN <<g, Inc8(t)>>
        ELSE <<g, t>>
    ELSE IF als > AlsHigh THEN
        IF g # 0 THEN <<Dec8(g), t>>
        ELSE IF t > 2 THEN <<g, Dec8(t)>>
        ELSE IF t # 0 THEN <<g, Dec8(t)>>
        ELSE <<g, t>>
    ELSE <<g, t>>

\* line 185 with -- for ++
Adjust_LowTimeDown(als, g, t) ==
    IF als < AlsLow THEN
        IF t < 2 THEN <<g, 2>>
        ELSE IF g < lvc_nGain - 1 THEN <<Inc8(g), t>>
        ELSE IF t < lvc_nTime - 1 THEN <<g, Dec8(t)>>
        ELSE <<g, t>>
    ELSE IF als > AlsHigh THEN
        IF t > 2 THEN <<g, Dec8(t)>>
        ELSE IF g # 0 THEN <<Dec8(g), t>>
        ELSE IF t # 0 THEN <<g, Dec8(t)>>
        ELSE <<g, t>>
    ELSE <<g, t>>

\* lines 187-191 without the rule of line 188: the time index goes down
\* first, whatever the gain
Adjust_HighTimeFirst(als, g, t) ==
    IF als < AlsLow THEN
        IF t < 2 THEN <<g, 2>>
        ELSE IF g < lvc_nGain - 1 THEN <<Inc8(g), t>>
        ELSE IF t < lvc_nTime - 1 THEN <<g, Inc8(t)>>
        ELSE <<g, t>>
    ELSE IF als > AlsHigh THEN
        IF t # 0 THEN <<g, Dec8(t)>>
        ELSE IF g # 0 THEN <<Dec8(g), t>>
        ELSE <<g, t>>
    ELSE <<g, t>>

\* the setting <<gainIndex, timeIndex>> after lines 182-191
Adjust(als, g, t) ==
    IF als < AlsLow THEN
        IF t < 2 THEN <<g, 2>>
        ELSE IF g < lvc_nGain - 1 THEN <<Inc8(g), t>>
        ELSE IF t < lvc_nTime - 1 THEN <<g, Inc8(t)>>
        ELSE <<g, t>>
    ELSE IF als > AlsHigh THEN
        IF t > 2 THEN <<g, Dec8(t)>>
        ELSE IF g # 0 THEN <<Dec8(g), t>>
        ELSE IF t # 0 THEN <<g, Dec8(t)>>
        ELSE <<g, t>>
    ELSE <<g, t>>

\* line 195 shifting the index itself instead of lvc_ALSgain[index]
GainCodes_Index(g) == {g}

\* table reads; an index outside the table reads whatever lies behind it
GainCodes(g) == IF g \in 0..(lvc_nGain - 1) THEN {lvc_ALSgain[g]} ELSE {0, 255}
TimeCodes(t) == IF t \in 0..(lvc_nTime - 1) THEN {lvc_ALStime[t]} ELSE {0, 255}
Delays(t) == IF t \in 0..(lvc_nTime - 1) THEN {lvc_ALSdelay[t]} ELSE {0, 65535}

\* lines 194-195 with the mask 0xE03F, which clears bit 10 as well
NewConf_WideMask(conf, gcode, tcode) ==
    Or16(Or16(And16(conf, 57407), Shl16(gcode, 11)), Shl16(tcode, 6))

\* lines 194-195: the configuration with the gain and time fields replaced
NewConf(conf, gcode, tcode) ==
    Or16(Or16(And16(conf, ConfMask), Shl16(gcode, 11)), Shl16(tcode, 6))

\* sleep() writing the shutdown bit alone instead of or-ing it in
SleepValue_OnlyBit(reg16) == 1

\* sleep() and wakeUp(): the value written for the value read
SleepValue(reg16) == Or16(reg16, 1)
WakeValue(reg16) == And16(reg16, 65534)

\* the delay without its margin of 100 ms
SettleMs_NoMargin(d) == d

\* delay(lvc_ALSdelay[lv_timeIndex] + 100)
SettleMs(d) == d + 100

\* the guard without line 203: only the most sensitive corner ends the loop
AtCorner_MaxOnly(g, t) == g = lvc_nGain - 1 /\ t = lvc_nTime - 1

\* the break of lines 202-203
AtCorner(g, t) ==
    \/ (g = lvc_nGain - 1 /\ t = lvc_nTime - 1)
    \/ (g = 0 /\ t = 0)

(***************************************************************************)
(* lv_coef * (float)count in IEEE single precision, then round().          *)
(* Every coefficient of lvc_tableResol converts to the float               *)
(* F32Mant * 2^(j - 31), with 2^j its ResolMult entry; F32Mant =           *)
(* F32Hi * 4096 + F32Lo.  The product is kept in two limbs of 12 bits so   *)
(* that no intermediate value leaves 31 bits.                              *)
(***************************************************************************)
F32Hi == 2202
F32Lo == 39

RECURSIVE BitLen(_)
BitLen(x) == IF x = 0 THEN 0 ELSE 1 + BitLen(x \div 2)

RECURSIVE Log2(_)
Log2(x) == IF x <= 1 THEN 0 ELSE 1 + Log2(x \div 2)

\* the exact product a * 4096 + b (b < 4096) of the two mantissas without
\* its last shift bits: <<quotient, remainder>>
F32Cut(a, b, shift) ==
    IF shift <= 12
    THEN <<a * Pow2(12 - shift) + b \div Pow2(shift), b % Pow2(shift)>>
    ELSE <<a \div Pow2(shift - 12), (a % Pow2(shift - 12)) * 4096 + b>>

\* round to nearest, ties to even: whether the cut value is rounded up
F32Up(cut, shift) ==
    /\ shift > 0
    /\ \/ cut[2] > Pow2(shift - 1)
       \/ cut[2] = Pow2(shift - 1) /\ cut[1] % 2 = 1

\* the product rounded to 24 bits, as <<q, d>>, meaning q / 2^d
F32Pack(cut, shift, j) ==
    <<IF F32Up(cut, shift) THEN cut[1] + 1 ELSE cut[1], 31 - j - shift>>

\* the bits to drop: what the product has beyond 24
F32Norm(a, b, j) ==
    The({The({F32Pack(cut, shift, j) : cut \in {F32Cut(a, b, shift)}}) :
           shift \in {IF a < 4096 THEN 0 ELSE BitLen(a) - 12}})

\* the float product of F32Mant * 2^(j - 31) and n
F32Mul(j, n) ==
    The({F32Norm(a, b, j) : a \in {n * F32Hi + (n * F32Lo) \div 4096},
                            b \in {(n * F32Lo) % 4096}})

\* the conversion to uint32_t without round(): the fraction is dropped
RoundF_Truncates(qd) ==
    IF qd[2] > 30 THEN 0
    ELSE qd[1] \div Pow2(qd[2])

\* round(x) for x = q / 2^d >= 0, q <= 2^24, d >= 1: halves away from zero
\* (beyond d = 30 the value is below 1/2)
RoundF(qd) ==
    IF qd[2] > 30 THEN 0
    ELSE (qd[1] + Pow2(qd[2] - 1)) \div Pow2(qd[2])

\* (uint32_t)(round(lv_coef * (float)count)) for the coefficient 0.0042 * mult
Lux(mult, n) == The({RoundF(qd) : qd \in {F32Mul(j, n) : j \in {Log2(mult)}}})

\* line 208-210 for indices that may lie outside the table
LuxSet(g, t, n) ==
    IF g \in 0..(lvc_nGain - 1) /\ t \in 0..(lvc_nTime - 1)
    THEN {Lux(mult, n) : mult \in {ResolMult[g][t]}}
    ELSE {0, 2147483647}

(***************************************************************************)
(* State.                                                                  *)
(***************************************************************************)
VARIABLES
    regConf,        \* the device's ALS_CONF register (command 0)
    regPSM,         \* the device's PSM register (command 3)
    clv_i2cAddr,    \* cl_VEML7700::clv_i2cAddr
    pc,             \* "idle", or the place of readAW() that runs next
    k,              \* readAW: the loop counter
    lv_gainIndex,   \* readAW locals
    lv_timeIndex,
    lv_ALSdata,
    lv_WHITEda,
    lv_ALSconf,
    ret,            \* what the last call returned: check's chip code,
                    \* readAW's lv_AW as <<lux1, whi1>>, <<>> for void
    calls,          \* public calls begun so far
    lastOp,         \* the public call that ran last
    chkIn,          \* what the bus answered the last check()
    confAtEntry,    \* ALS_CONF and PSM when the running (or last) call began;
                    \* once readAW adjusts, ALS_CONF without its gain and
                    \* time fields
    psmAtEntry,
    nWrites,        \* writeReg calls of the running (or last) call
    nDelays,        \* delay() calls of the running (or last) call
    lastDelay,      \* the argument of its last delay()
    delaySum,       \* the sum of the arguments of its delay() calls, in ms,
                    \* counted up to MaxSum (0 when the clock is not watched)
    pendingSettle,  \* gain/time written, delay() not yet run
    seen,           \* "none" before the call's first evaluation, "same"
                    \* while every evaluation saw one count, else "varied"
    held,           \* that one count (0 unless seen = "same")
    unknownCode,    \* the first pass met a gain or time code of no table
    quietCalls,     \* the readAW calls in a row, up to the last finished
                    \* one, that accepted their first count
    exitVia,        \* how the loop of readAW was left
    runOps,         \* the sleep() and wakeUp() calls made in a row up to now
    runConf,        \* ALS_CONF when the first of them began (0 if none)
    primed,         \* a check() has succeeded
    readsPrimed,    \* the readAW calls begun since it last did
    timed,          \* whether the clock is watched: delay() adds to delaySum
    busFaulty,      \* whether transfers of readReg/writeReg may fail
    faults,         \* transfers that failed so far
    faultSeen,      \* a transfer of the running (or last) call failed
    actedAfterFault \* ... and the call went on to access, adjust or delay

loc == <<k, lv_gainIndex, lv_timeIndex, lv_ALSdata, lv_WHITEda, lv_ALSconf>>
drv == <<clv_i2cAddr, loc, ret>>
mon == <<chkIn, confAtEntry, psmAtEntry, nWrites, nDelays, lastDelay, delaySum,
         pendingSettle, seen, held, unknownCode, quietCalls, exitVia>>
hist == <<runOps, runConf, primed, readsPrimed>>
bus == <<busFaulty, faults, faultSeen, actedAfterFault>>
vars == <<regConf, regPSM, pc, calls, lastOp, drv, mon, hist, timed, bus>>

(***************************************************************************)
(* The bus: readReg() and writeReg() never look at the outcome of the      *)
(* transfer.                                                               *)
(***************************************************************************)
\* lines 67-79: the register's value, or whatever the buffer held
ReadReg(ok, junk, actual) == IF ok THEN actual ELSE junk

\* lines 86-94: the register after the write
WriteReg(ok, old, data) == IF ok THEN data ELSE old

NFailed(oks) == Cardinality({i \in DOMAIN oks : ~oks[i]})

\* the outcomes a transfer can have now
OkSet == IF busFaulty /\ faults < MaxFaults THEN BOOLEAN ELSE {TRUE}

\* what a failed read may return; nothing is drawn when no read fails
Junk(allOk) == IF allOk THEN {0} ELSE BusGarbage

\* the outcomes oks (one per transfer, in order) are possible now
BusCan(oks) ==
    /\ NFailed(oks) > 0 => busFaulty
    /\ faults + NFailed(oks) <= MaxFaults

\* bookkeeping of a step of a running call that makes the transfers oks
BusStep(oks) ==
    /\ faults' = faults + NFailed(oks)
    /\ faultSeen' = (faultSeen \/ NFailed(oks) > 0)
    /\ actedAfterFault' =
          (\/ actedAfterFault
           \/ faultSeen
           \/ \E i \in DOMAIN oks : ~oks[i] /\ i < Len(oks))
    /\ UNCHANGED <<busFaulty, timed>>

\* bookkeeping of the first step of a call
BusBegin(oks) ==
    /\ faults' = faults + NFailed(oks)
    /\ faultSeen' = (NFailed(oks) > 0)
    /\ actedAfterFault' = (\E i \in DOMAIN oks : ~oks[i] /\ i < Len(oks))
    /\ UNCHANGED <<busFaulty, timed>>

\* a step without transfer (adjust, delay)
BusQuiet ==
    /\ actedAfterFault' = (actedAfterFault \/ faultSeen)
    /\ UNCHANGED <<busFaulty, timed, faults, faultSeen>>

\* chkIn when the last call was no check()
NoCheck == [wr |-> 0, et |-> 0, n |-> 0, id |-> 0]

(***************************************************************************)
(* Initial states: the constructor has run, the device holds any           *)
(* configuration.                                                          *)
(***************************************************************************)
InitCommon(devices) ==
    /\ \E dev \in devices : regConf = dev[1] /\ regPSM = dev[2]
    /\ clv_i2cAddr = DefaultAddr
    /\ pc = "idle"
    /\ k = 0
    /\ lv_gainIndex = 0
    /\ lv_timeIndex = 0
    /\ lv_ALSdata = 0
    /\ lv_WHITEda = 0
    /\ lv_ALSconf = 0
    /\ ret = <<>>
    /\ calls = 0
    /\ lastOp = "none"
    /\ chkIn = NoCheck
    /\ confAtEntry = regConf
    /\ psmAtEntry = regPSM
    /\ nWrites = 0
    /\ nDelays = 0
    /\ lastDelay = 0
    /\ delaySum = 0
    /\ pendingSettle = FALSE
    /\ seen = "none"
    /\ held = 0
    /\ unknownCode = FALSE
    /\ quietCalls = 0
    /\ exitVia = "none"
    /\ runOps = <<>>
    /\ runConf = 0
    /\ primed = FALSE
    /\ readsPrimed = 0
    /\ faults = 0
    /\ faultSeen = FALSE
    /\ actedAfterFault = FALSE

Init == InitCommon(InitDevice) /\ busFaulty = FALSE /\ timed = FALSE

\* the configurations the device starts from when transfers may fail or the
\* clock is watched
SmallDevice ==
    {<<o + 2048 * g + 64 * t, 0>> : o \in ConfOther, g \in {0, 3}, t \in {0, 3}}

InitBus == InitCommon(SmallDevice) /\ busFaulty = TRUE /\ timed = FALSE
InitTime == InitCommon(SmallDevice) /\ busFaulty = FALSE /\ timed = TRUE

CanCall == pc = "idle" /\ calls < MaxCalls

\* a public call begins: the per-call bookkeeping starts afresh
BeginCall(op) ==
    /\ calls' = calls + 1
    /\ lastOp' = op
    /\ confAtEntry' = regConf
    /\ psmAtEntry' = regPSM
    /\ nDelays' = 0
    /\ lastDelay' = 0
    /\ delaySum' = 0
    /\ pendingSettle' = FALSE
    /\ seen' = "none"
    /\ held' = 0
    /\ unknownCode' = FALSE
    /\ exitVia' = "none"
    /\ runOps' = IF op \in {"sleep", "wakeUp"} THEN Append(runOps, op)
                 ELSE <<>>
    /\ runConf' = IF op \in {"sleep", "wakeUp"}
                  THEN (IF runOps = <<>> THEN regConf ELSE runConf)
                  ELSE 0

\* outside readAW() its locals do not exist
NoLocals ==
    /\ k' = 0
    /\ lv_gainIndex' = 0
    /\ lv_timeIndex' = 0
    /\ lv_ALSdata' = 0
    /\ lv_WHITEda' = 0
    /\ lv_ALSconf' = 0

(***************************************************************************)
(* check(), sleep(), wakeUp().                                             *)
(***************************************************************************)
\* line 109 testing for no byte at all instead of fewer than two
CheckFails_Zero(wr, et, n) == wr # 1 \/ et # 0 \/ n = 0

\* lines 107-109: Wire.write() returned wr, endTransmission() et,
\* requestFrom() n
CheckFails(wr, et, n) == wr # 1 \/ et # 0 \/ n # 2

\* line 112
ChipCode(lsb, msb) == (msb * 256 + lsb) % 65536

Check ==
    \E addr \in I2cAddrs, wr \in {0, 1}, et \in {0, 2}, n \in {0, 1, 2},
       lsb \in IdLsb, msb \in IdMsb, ok1 \in OkSet, ok2 \in OkSet :
        /\ CanCall
        /\ BeginCall("check")
        /\ clv_i2cAddr' = addr
        /\ IF CheckFails(wr, et, n)
           THEN /\ ok1 /\ ok2
                /\ ret' = 0
                /\ chkIn' = [wr |-> wr, et |-> et, n |-> n, id |-> 0]
                /\ nWrites' = 0
                /\ BusBegin(<<>>)
                /\ UNCHANGED <<regPSM, regConf>>
           ELSE /\ BusCan(<<ok1, ok2>>)
                /\ ret' = ChipCode(lsb, msb)
                /\ chkIn' = [wr |-> wr, et |-> et, n |-> n,
                             id |-> msb * 256 + lsb]
                /\ regPSM' = WriteReg(ok1, regPSM, 0)
                /\ regConf' = WriteReg(ok2, regConf, ConfInit)
                /\ nWrites' = 2
                /\ BusBegin(<<ok1, ok2>>)
        /\ primed' = (primed \/ ~CheckFails(wr, et, n))
        /\ readsPrimed' = IF CheckFails(wr, et, n) THEN readsPrimed ELSE 0
        /\ NoLocals
        /\ quietCalls' = 0
        /\ UNCHANGED pc

Sleep ==
    \E okr \in OkSet, okw \in OkSet : \E junk \in Junk(okr) :
        /\ CanCall
        /\ BusCan(<<okr, okw>>)
        /\ BeginCall("sleep")
        /\ regConf' = WriteReg(okw, regConf,
                               SleepValue(ReadReg(okr, junk, regConf)))
        /\ nWrites' = 1
        /\ ret' = <<>>
        /\ chkIn' = NoCheck
        /\ quietCalls' = 0
        /\ NoLocals
        /\ BusBegin(<<okr, okw>>)
        /\ UNCHANGED <<regPSM, pc, clv_i2cAddr, primed, readsPrimed>>

WakeUp ==
    \E okr \in OkSet, okw \in OkSet : \E junk \in Junk(okr) :
        /\ CanCall
        /\ BusCan(<<okr, okw>>)
        /\ BeginCall("wakeUp")
        /\ regConf' = WriteReg(okw, regConf,
                               WakeValue(ReadReg(okr, junk, regConf)))
        /\ nWrites' = 1
        /\ ret' = <<>>
        /\ chkIn' = NoCheck
        /\ quietCalls' = 0
        /\ NoLocals
        /\ BusBegin(<<okr, okw>>)
        /\ UNCHANGED <<regPSM, pc, clv_i2cAddr, primed, readsPrimed>>

(***************************************************************************)
(* readAW(), one action per statement that touches the bus or the clock.   *)
(***************************************************************************)
\* the for statement's test off by one: k <= 24
LoopPc_OneMore(kk) == IF kk <= MaxIter THEN "sample" ELSE "final"

\* the for statement's test, after k has its new value
LoopPc(kk) == IF kk < MaxIter THEN "sample" ELSE "final"

\* lines 161-167: the locals, the two reads whose result line 168
\* overwrites, k = 0
ReadAW_Begin ==
    \E a \in AlsCounts, w \in WhiteCounts, ok1 \in OkSet, ok2 \in OkSet :
      \E junk \in Junk(ok1 /\ ok2) :
        /\ CanCall
        /\ BusCan(<<ok1, ok2>>)
        /\ BeginCall("readAW")
        /\ lv_gainIndex' = 0
        /\ lv_timeIndex' = 0
        /\ ret' = <<0, 0>>
        /\ chkIn' = NoCheck
        /\ lv_ALSdata' = ReadReg(ok1, junk, a)
        /\ lv_WHITEda' = ReadReg(ok2, junk, w)
        /\ lv_ALSconf' = 0
        /\ k' = 0
        /\ pc' = LoopPc(0)
        /\ nWrites' = 0
        /\ BusBegin(<<ok1, ok2>>)
        /\ readsPrimed' = IF primed THEN readsPrimed + 1 ELSE 0
        /\ UNCHANGED <<regConf, regPSM, clv_i2cAddr, quietCalls, primed>>

\* lines 168-169
Sample ==
    \E a \in AlsCounts, w \in WhiteCounts, ok1 \in OkSet, ok2 \in OkSet :
      \E junk \in Junk(ok1 /\ ok2) :
        /\ pc = "sample"
        /\ UNCHANGED hist
        /\ BusCan(<<ok1, ok2>>)
        /\ lv_ALSdata' = ReadReg(ok1, junk, a)
        /\ lv_WHITEda' = ReadReg(ok2, junk, w)
        /\ pc' = "conf"
        /\ BusStep(<<ok1, ok2>>)
        /\ UNCHANGED <<regConf, regPSM, calls, lastOp, clv_i2cAddr, k,
                       lv_gainIndex, lv_timeIndex, lv_ALSconf, ret, mon>>

\* lines 170-175
ReadConf ==
    \E ok \in OkSet : \E junk \in Junk(ok) :
        /\ pc = "conf"
        /\ UNCHANGED hist
        /\ BusCan(<<ok>>)
        /\ lv_ALSconf' = ReadReg(ok, junk, regConf)
        /\ lv_gainIndex' = FindIndex(lvc_ALSgain, lvc_nGain,
                                     GainField(lv_ALSconf'), lv_gainIndex)
        /\ lv_timeIndex' = FindIndex(lvc_ALStime, lvc_nTime,
                                     TimeField(lv_ALSconf'), lv_timeIndex)
        /\ unknownCode' =
              (\/ unknownCode
               \/ k = 0 /\ \A i \in 0..(lvc_nGain - 1) :
                              lvc_ALSgain[i] # GainField(lv_ALSconf')
               \/ k = 0 /\ \A i \in 0..(lvc_nTime - 1) :
                              lvc_ALStime[i] # TimeField(lv_ALSconf'))
        /\ pc' = "eval"
        /\ BusStep(<<ok>>)
        /\ UNCHANGED <<regConf, regPSM, calls, lastOp, clv_i2cAddr, k,
                       lv_ALSdata, lv_WHITEda, ret, chkIn, confAtEntry,
                       psmAtEntry, nWrites, nDelays, lastDelay, delaySum, pendingSettle,
                       seen, held, quietCalls, exitVia>>

\* lines 181-191
Evaluate ==
    /\ pc = "eval"
    /\ UNCHANGED hist
    /\ seen' = IF seen = "none" \/ (seen = "same" /\ held = lv_ALSdata)
               THEN "same" ELSE "varied"
    /\ held' = IF seen' = "same" THEN lv_ALSdata ELSE 0
    /\ IF InRange(lv_ALSdata)
       THEN /\ pc' = "final"
            /\ exitVia' = "accept"
            /\ UNCHANGED <<lv_gainIndex, lv_timeIndex, bus, timed>>
       ELSE /\ pc' = "sleep"
            /\ lv_gainIndex' = Adjust(lv_ALSdata, lv_gainIndex, lv_timeIndex)[1]
            /\ lv_timeIndex' = Adjust(lv_ALSdata, lv_gainIndex, lv_timeIndex)[2]
            /\ BusQuiet
            /\ UNCHANGED exitVia
    /\ confAtEntry' = IF InRange(lv_ALSdata) THEN confAtEntry
                      ELSE And16(confAtEntry, ConfMask)
    /\ UNCHANGED <<regConf, regPSM, calls, lastOp, clv_i2cAddr, k, lv_ALSdata,
                   lv_WHITEda, lv_ALSconf, ret, chkIn,
                   psmAtEntry, nWrites, nDelays, lastDelay, delaySum, pendingSettle,
                   unknownCode, quietCalls>>

\* line 193: sleep()
SleepStep ==
    \E okr \in OkSet, okw \in OkSet : \E junk \in Junk(okr) :
        /\ pc = "sleep"
        /\ UNCHANGED hist
        /\ BusCan(<<okr, okw>>)
        /\ regConf' = WriteReg(okw, regConf,
                               SleepValue(ReadReg(okr, junk, regConf)))
        /\ nWrites' = nWrites + 1
        /\ pc' = "write"
        /\ BusStep(<<okr, okw>>)
        /\ UNCHANGED <<regPSM, calls, lastOp, drv, chkIn, confAtEntry,
                       psmAtEntry, nDelays, lastDelay, delaySum, pendingSettle, seen,
                       held, unknownCode, quietCalls, exitVia>>

\* lines 194-196
WriteStep ==
    \E ok \in OkSet, gc \in GainCodes(lv_gainIndex),
       tc \in TimeCodes(lv_timeIndex) :
        /\ pc = "write"
        /\ UNCHANGED hist
        /\ BusCan(<<ok>>)
        /\ lv_ALSconf' = NewConf(lv_ALSconf, gc, tc)
        /\ regConf' = WriteReg(ok, regConf, lv_ALSconf')
        /\ nWrites' = nWrites + 1
        /\ pendingSettle' = TRUE
        /\ pc' = "wake"
        /\ BusStep(<<ok>>)
        /\ UNCHANGED <<regPSM, calls, lastOp, clv_i2cAddr, k, lv_gainIndex,
                       lv_timeIndex, lv_ALSdata, lv_WHITEda, ret, chkIn, confAtEntry, psmAtEntry, nDelays,
                       lastDelay, delaySum, seen, held, unknownCode, quietCalls,
                       exitVia>>

\* line 197: wakeUp()
WakeStep ==
    \E okr \in OkSet, okw \in OkSet : \E junk \in Junk(okr) :
        /\ pc = "wake"
        /\ UNCHANGED hist
        /\ BusCan(<<okr, okw>>)
        /\ regConf' = WriteReg(okw, regConf,
                               WakeValue(ReadReg(okr, junk, regConf)))
        /\ nWrites' = nWrites + 1
        /\ pc' = "delay"
        /\ BusStep(<<okr, okw>>)
        /\ UNCHANGED <<regPSM, calls, lastOp, drv, chkIn, confAtEntry,
                       psmAtEntry, nDelays, lastDelay, delaySum, pendingSettle, seen,
                       held, unknownCode, quietCalls, exitVia>>

\* line 198
DelayStep ==
    \E d \in Delays(lv_timeIndex) :
        /\ pc = "delay"
        /\ UNCHANGED hist
        /\ lastDelay' = SettleMs(d)
        /\ delaySum' = IF ~timed THEN delaySum
                       ELSE IF delaySum + SettleMs(d) > MaxSum THEN MaxSum
                       ELSE delaySum + SettleMs(d)
        /\ nDelays' = nDelays + 1
        /\ pendingSettle' = FALSE
        /\ pc' = "guard"
        /\ BusQuiet
        /\ UNCHANGED <<regConf, regPSM, calls, lastOp, drv, chkIn,
                       confAtEntry, psmAtEntry, nWrites, seen, held,
                       unknownCode, quietCalls, exitVia>>

\* lines 202-203, then k++ and the test of line 167
GuardStep ==
    /\ pc = "guard"
    /\ UNCHANGED hist
    /\ IF AtCorner(lv_gainIndex, lv_timeIndex)
       THEN /\ pc' = "final"
            /\ exitVia' = "corner"
            /\ k' = k
       ELSE /\ k' = k + 1
            /\ pc' = LoopPc(k + 1)
            /\ exitVia' = IF LoopPc(k + 1) = "final" THEN "budget"
                          ELSE exitVia
    /\ UNCHANGED <<regConf, regPSM, calls, lastOp, clv_i2cAddr, lv_gainIndex,
                   lv_timeIndex, lv_ALSdata, lv_WHITEda, lv_ALSconf, ret, chkIn, confAtEntry, psmAtEntry, nWrites,
                   nDelays, lastDelay, delaySum, pendingSettle, seen, held,
                   unknownCode, quietCalls, bus, timed>>

\* lines 206-215
Finalize ==
    \E a \in AlsCounts, w \in WhiteCounts, ok1 \in OkSet, ok2 \in OkSet :
      \E junk \in Junk(ok1 /\ ok2) :
        /\ pc = "final"
        /\ UNCHANGED hist
        /\ BusCan(<<ok1, ok2>>)
        /\ lv_ALSdata' = ReadReg(ok1, junk, a)
        /\ lv_WHITEda' = ReadReg(ok2, junk, w)
        /\ \E l1 \in LuxSet(lv_gainIndex, lv_timeIndex, ReadReg(ok1, junk, a)),
              l2 \in LuxSet(lv_gainIndex, lv_timeIndex, ReadReg(ok2, junk, w)) :
                ret' = <<l1, l2>>
        /\ pc' = "idle"
        /\ quietCalls' = IF exitVia = "accept" /\ k = 0 THEN quietCalls + 1
                         ELSE 0
        /\ BusStep(<<ok1, ok2>>)
        /\ UNCHANGED <<regConf, regPSM, calls, lastOp, clv_i2cAddr, k,
                       lv_gainIndex, lv_timeIndex, lv_ALSconf, chkIn,
                       confAtEntry, psmAtEntry, nWrites, nDelays, lastDelay, delaySum,
                       pendingSettle, seen, held, unknownCode, exitVia>>

ReadAW ==
    \/ ReadAW_Begin
    \/ Sample
    \/ ReadConf
    \/ Evaluate
    \/ SleepStep
    \/ WriteStep
    \/ WakeStep
    \/ DelayStep
    \/ GuardStep
    \/ Finalize

Next ==
    \/ Check
    \/ Sleep
    \/ WakeUp
    \/ ReadAW

Spec == Init /\ [][Next]_vars

\* transfers may fail
SpecBus == InitBus /\ [][Next]_vars

\* the time spent in delay() is summed
SpecTime == InitTime /\ [][Next]_vars

(***************************************************************************)
(* Properties.                                                             *)
(***************************************************************************)
InReadAW == lastOp = "readAW"
Returned == pc = "idle" /\ lastOp = "readAW"
\* the count the first pass evaluated, once it has
FirstPassDone == InReadAW /\ k = 0 /\ seen = "same"

\* C1: a call of readAW whose first evaluated count lies in 1000..10000,
\* both ends included, accepts it at once and does nothing else: no
\* register write, no delay, ALS_CONF as it was when the call began, in
\* every state from the evaluation to the return; the same for every
\* following call of that kind.
C1_InRangeFirstPassIsQuiet ==
    (FirstPassDone /\ held >= 1000 /\ held <= 10000) =>
        /\ pc \in {"final", "idle"}
        /\ exitVia = "accept"
        /\ nWrites = 0
        /\ nDelays = 0
        /\ regConf = confAtEntry

\* two calls in a row accepted their first count, the second one exactly 1000
C1_Witness ==
    /\ Returned
    /\ quietCalls = 2
    /\ held = 1000
    /\ nWrites = 0
    /\ regConf = confAtEntry

\* the steps a running readAW has left at most: 8 per pass of the loop still
\* to come, the rest of the running pass, Finalize
StepsLeft ==
    CASE pc = "idle" -> 0
      [] pc = "final" -> 1
      [] pc = "sample" -> 8 * (23 - k) + 9
      [] pc = "conf" -> 8 * (23 - k) + 8
      [] pc = "eval" -> 8 * (23 - k) + 7
      [] pc = "sleep" -> 8 * (23 - k) + 6
      [] pc = "write" -> 8 * (23 - k) + 5
      [] pc = "wake" -> 8 * (23 - k) + 4
      [] pc = "delay" -> 8 * (23 - k) + 3
      [] pc = "guard" -> 8 * (23 - k) + 2

\* C2: readAW runs at most 24 passes of its loop, so at most 24 Apply steps
\* (3 configuration writes and one delay each); leaving the loop because the
\* 24 passes are used up leads to Finalize like any other exit; and every
\* call that has begun returns a reading: a running call always has a next
\* step, every step brings it nearer to its return by the measure
\* StepsLeft, and what it returns is a reading.
C2_Bounded ==
    InReadAW =>
        /\ k <= 24
        /\ nDelays <= 24
        /\ nWrites <= 72
        /\ (exitVia = "budget" => pc \in {"final", "idle"} /\ k = 24)
        /\ (pc = "idle" => Len(ret) = 2)

\* a running call can take the step it stands at
C2_CanStep ==
    /\ pc = "sample" => ENABLED Sample
    /\ pc = "conf" => ENABLED ReadConf
    /\ pc = "eval" => ENABLED Evaluate
    /\ pc = "sleep" => ENABLED SleepStep
    /\ pc = "write" => ENABLED WriteStep
    /\ pc = "wake" => ENABLED WakeStep
    /\ pc = "delay" => ENABLED DelayStep
    /\ pc = "guard" => ENABLED GuardStep
    /\ pc = "final" => ENABLED Finalize
    /\ pc # "idle" => StepsLeft > 0

C2_TerminatesWithin24 ==
    /\ []C2_Bounded
    /\ []C2_CanStep
    /\ [][pc # "idle" => StepsLeft' < StepsLeft]_vars

\* a call has returned after using up all 24 passes
C2_Witness ==
    /\ Returned
    /\ exitVia = "budget"
    /\ nDelays = 24
    /\ Len(ret) = 2

\* C3: when every evaluation of a call saw the same out-of-range count, the
\* loop is left by the corner guard, after at most 24 passes and never by
\* using them up, at (0,0) for a count above 10000 and at (3,5) for one
\* below 1000.
C3_ConstantCountEndsAtCorner ==
    (InReadAW /\ pc \in {"final", "idle"} /\ seen = "same"
       /\ (held < 1000 \/ held > 10000)) =>
        /\ exitVia = "corner"
        /\ nDelays <= 24
        /\ k < 24
        /\ (held > 10000 => lv_gainIndex = 0 /\ lv_timeIndex = 0)
        /\ (held < 1000 => lv_gainIndex = 3 /\ lv_timeIndex = 5)

\* the count 50000 throughout, from the setting (3,5) down to (0,0) in 8 passes
C3_Witness ==
    /\ Returned
    /\ seen = "same"
    /\ held = 50000
    /\ exitVia = "corner"
    /\ nDelays = 8
    /\ lv_gainIndex = 0
    /\ lv_timeIndex = 0

\* C4: when a register read or write of readAW fails, the call fails at once:
\* it performs no further register access, adjustment or delay after the
\* failing access and returns no reading.
C4_BusErrorSurfaced ==
    (InReadAW /\ faultSeen) =>
        /\ ~actedAfterFault
        /\ ~(pc = "idle" /\ Len(ret) = 2)

\* a call went through an Apply step after a failed transfer and returned a
\* reading
C4_Witness ==
    /\ Returned
    /\ faultSeen
    /\ actedAfterFault
    /\ nDelays >= 1
    /\ Len(ret) = 2

\* C5: during and after readAW, whatever the register held when the call
\* began and whatever the counts, every bit of ALS_CONF other than the gain
\* field (bits 11-12), the time field (bits 6-9) and bit 0 holds the value it
\* had when the call began (58430 = 0xE43E has exactly those other bits).
C5_OtherBitsKept ==
    InReadAW => And16(regConf, 58430) = And16(confAtEntry, 58430)

\* a call with at least two Apply steps has returned, all the other bits set
\* before and after
C5_Witness ==
    /\ Returned
    /\ nDelays >= 2
    /\ nWrites >= 6
    /\ And16(confAtEntry, 58430) = 58430
    /\ And16(regConf, 58430) = 58430

\* C6: in every state of readAW the gain index is in 0..3 and the time index
\* in 0..5, so every table read (gain code, time code, delay, coefficient)
\* is inside its table.
C6_IndicesInBounds ==
    InReadAW =>
        /\ lv_gainIndex \in 0..3
        /\ lv_timeIndex \in 0..5
        /\ lv_gainIndex \in DOMAIN lvc_ALSgain
        /\ lv_timeIndex \in DOMAIN lvc_ALStime
        /\ lv_timeIndex \in DOMAIN lvc_ALSdelay
        /\ lv_gainIndex \in DOMAIN ResolMult
        /\ lv_timeIndex \in DOMAIN ResolMult[lv_gainIndex]

\* a count above 10000 was evaluated at the setting (0,0), and the adjustment
\* left both indices at 0
C6_Witness ==
    /\ InReadAW
    /\ pc = "sleep"
    /\ lv_ALSdata > 10000
    /\ lv_gainIndex = 0
    /\ lv_timeIndex = 0
    /\ TimeField(lv_ALSconf) = 12
    /\ GainField(lv_ALSconf) = 2

\* C7: between the write of a new configuration and the delay no count is
\* sampled (the call stands at wakeUp() or at the delay), and when the next
\* sample is due the call has waited 25, 50, 100, 200, 400 or 800 ms plus
\* 100 ms, by the time index it has just written to the register: 900 ms
\* for index 5.
C7_SettleBeforeSample ==
    /\ pendingSettle => pc \in {"wake", "delay"}
    /\ pc \in {"sample", "conf", "eval", "final"} => ~pendingSettle
    /\ (InReadAW /\ nDelays > 0 /\ pc \in {"guard", "sample", "final"}) =>
          /\ lv_timeIndex \in 0..5
          /\ lastDelay = <<25, 50, 100, 200, 400, 800>>[lv_timeIndex + 1] + 100
          /\ TimeField(regConf) = <<12, 8, 0, 1, 2, 3>>[lv_timeIndex + 1]
          /\ (lv_timeIndex = 5 => lastDelay >= 900)
    /\ InReadAW /\ pc \in {"guard", "sample", "conf", "eval", "final", "idle"}
          => nWrites = 3 * nDelays

\* the last sample is due after a write of time index 5 and a wait of 900 ms
C7_Witness ==
    /\ InReadAW
    /\ pc = "final"
    /\ exitVia = "corner"
    /\ nDelays >= 1
    /\ lv_timeIndex = 5
    /\ lastDelay = 900
    /\ ~pendingSettle

\* count * 0.0042 * mult rounded to the nearest integer, halves up
HalfUp(mult, n) == (n * mult * 42 + 5000) \div 10000

\* the distance of lux from count * 0.0042 * mult, in 1/10000
LuxError(lux, mult, n) ==
    IF lux * 10000 >= n * mult * 42 THEN lux * 10000 - n * mult * 42
    ELSE n * mult * 42 - lux * 10000

\* C8 as stated: readAW returns, for either channel, the count of the sample
\* taken after the loop times the coefficient of the final setting, rounded
\* to the nearest integer with halves up, a value below 2^32.
C8_RoundsHalfUp ==
    Returned =>
        /\ ret[1] = HalfUp(ResolMult[lv_gainIndex][lv_timeIndex], lv_ALSdata)
        /\ ret[2] = HalfUp(ResolMult[lv_gainIndex][lv_timeIndex], lv_WHITEda)
        /\ ret[1] \div 65536 < 65536
        /\ ret[2] \div 65536 < 65536

\* C8 amended: readAW returns, for either channel, an integer no further
\* than 0.5025 from the count of the sample taken after the loop times the
\* coefficient of the final setting (the product is formed in single
\* precision and then rounded, so a product at or next to a half may go
\* either way), a value below 2^32; 5000 at the setting (2,2) gives 336.
C8_RoundsFloatProduct ==
    /\ Returned =>
          /\ LuxError(ret[1], ResolMult[lv_gainIndex][lv_timeIndex],
                      lv_ALSdata) <= 5025
          /\ LuxError(ret[2], ResolMult[lv_gainIndex][lv_timeIndex],
                      lv_WHITEda) <= 5025
          /\ ret[1] \div 65536 < 65536
          /\ ret[2] \div 65536 < 65536
    /\ Lux(ResolMult[2][2], 5000) = 336

\* the count 7500 at the setting (3,5): 7500 * 0.0042 = 31.5, returned as 31
C8_Witness ==
    /\ Returned
    /\ lv_gainIndex = 3
    /\ lv_timeIndex = 5
    /\ lv_ALSdata = 7500
    /\ ret[1] = 31
    /\ lv_WHITEda = 65535
    /\ ret[2] = 275

\* C9: when readAW has recovered the setting from ALS_CONF, a gain or time
\* code of the tables has given exactly its own index (gain codes 2, 3, 0,
\* 1 the indices 0..3, time codes 12, 8, 0, 1, 2, 3 the indices 0..5), any
\* other code the index 0, and the call goes on: a call that met such a
\* code is not stuck and returns a reading.
C9_UnknownCodeMapsToZero ==
    /\ (InReadAW /\ pc = "eval") =>
          /\ lv_gainIndex = (GainField(lv_ALSconf) + 2) % 4
          /\ lv_timeIndex =
                CASE TimeField(lv_ALSconf) = 12 -> 0
                  [] TimeField(lv_ALSconf) = 8 -> 1
                  [] TimeField(lv_ALSconf) \in 0..3 ->
                        TimeField(lv_ALSconf) + 2
                  [] OTHER -> 0
    /\ (InReadAW /\ unknownCode) =>
          /\ pc # "idle" => StepsLeft > 0
          /\ pc = "idle" => Len(ret) = 2

\* the time code 7, which no table entry has, was read in the first pass and
\* gave index 0; the gain code 1 gave index 3
C9_Witness ==
    /\ InReadAW
    /\ pc = "eval"
    /\ k = 0
    /\ unknownCode
    /\ TimeField(lv_ALSconf) = 7
    /\ lv_timeIndex = 0
    /\ GainField(lv_ALSconf) = 1
    /\ lv_gainIndex = 3

\* C10: check() returns 0 and writes no register when Wire.write() did not
\* take the command byte, the transmission was not acknowledged or fewer
\* than 2 bytes came back; otherwise it returns the 16-bit identity code
\* after writing 0 to PSM and 0x1000 to ALS_CONF, which is gain code 2
\* (x1/8), time code 0 (100 ms), interrupt enable (bit 1) and shutdown
\* (bit 0) clear.
C10_CheckSentinelOrInit ==
    lastOp = "check" =>
        IF chkIn.wr # 1 \/ chkIn.et # 0 \/ chkIn.n < 2
        THEN /\ ret = 0
             /\ nWrites = 0
             /\ regConf = confAtEntry
             /\ regPSM = psmAtEntry
        ELSE /\ ret = chkIn.id
             /\ ret \in 1..65535
             /\ nWrites = 2
             /\ regPSM = 0
             /\ regConf = 4096
             /\ GainField(regConf) = 2
             /\ TimeField(regConf) = 0
             /\ Bit(regConf, 1) = 0
             /\ Bit(regConf, 0) = 0

\* one byte instead of two came back: 0 returned, PSM still 7
C10_Witness ==
    /\ lastOp = "check"
    /\ chkIn.wr = 1
    /\ chkIn.et = 0
    /\ chkIn.n = 1
    /\ ret = 0
    /\ nWrites = 0
    /\ psmAtEntry = 7
    /\ regPSM = 7

\* C11: after any run of sleep() and wakeUp() calls bits 1-15 of ALS_CONF are
\* what they were before the run and bit 0 is 1 after sleep(), 0 after
\* wakeUp(); each call writes once and only ALS_CONF; a call repeated leaves
\* the register as the first one left it; sleep() then wakeUp() leaves the
\* original value with bit 0 cleared.
C11_ShutdownBitOnly ==
    runOps # <<>> =>
        /\ And16(regConf, 65534) = And16(runConf, 65534)
        /\ Bit(regConf, 0) = IF runOps[Len(runOps)] = "sleep" THEN 1 ELSE 0
        /\ And16(regConf, 65534) = And16(confAtEntry, 65534)
        /\ nWrites = 1
        /\ regPSM = psmAtEntry
        /\ (Len(runOps) >= 2 /\ runOps[Len(runOps)] = runOps[Len(runOps) - 1])
              => regConf = confAtEntry
        /\ runOps = <<"sleep", "wakeUp">> => regConf = And16(runConf, 65534)

\* sleep() then wakeUp() on a register with every bit outside the gain and
\* time fields set, bit 0 too: all kept but bit 0
C11_Witness ==
    /\ runOps = <<"sleep", "wakeUp">>
    /\ And16(runConf, 58431) = 58431
    /\ regConf = runConf - 1
    /\ confAtEntry = runConf

\* C12: the durations passed to delay() during one readAW call add up to at
\* least 500 ms and at most 3000 ms.
C12_BlockedBetween500And3000 ==
    (timed /\ Returned) => delaySum >= 500 /\ delaySum <= 3000

\* a call has returned after delays of more than 3000 ms in all
C12_Witness ==
    /\ timed
    /\ Returned
    /\ nDelays >= 4
    /\ delaySum > 3000

\* Evaluate has taken lines 182-191 (the count was out of range)
AdjustStep == pc = "eval" /\ pc' = "sleep"

\* the step touches nothing but the two indices
AdjustOnlyIndices ==
    UNCHANGED <<regConf, regPSM, k, lv_ALSdata, lv_WHITEda, lv_ALSconf,
                nWrites, nDelays>>

\* C13: an Adjust step with a count below 1000 applies the first rule that
\* fits and nothing else: time index below 2 -> it becomes 2, gain as it
\* was; else gain index below 3 -> it goes up by 1, time as it was; else
\* time index below 5 -> it goes up by 1, gain as it was; else, at (3,5),
\* both stay.
C13_TooWeakFirstRule ==
    [][(AdjustStep /\ lv_ALSdata < 1000) =>
          /\ IF lv_timeIndex < 2
             THEN lv_timeIndex' = 2 /\ lv_gainIndex' = lv_gainIndex
             ELSE IF lv_gainIndex < 3
             THEN lv_gainIndex' = lv_gainIndex + 1
                  /\ lv_timeIndex' = lv_timeIndex
             ELSE IF lv_timeIndex < 5
             THEN lv_timeIndex' = lv_timeIndex + 1
                  /\ lv_gainIndex' = lv_gainIndex
             ELSE lv_gainIndex' = 3 /\ lv_timeIndex' = 5
          /\ AdjustOnlyIndices]_vars

\* rule (c) has acted: a count below 1000 read at the setting (3,3) (gain
\* code 1, time code 1), the setting now (3,4)
C13_Witness ==
    /\ InReadAW
    /\ pc = "sleep"
    /\ lv_ALSdata < 1000
    /\ GainField(lv_ALSconf) = 1
    /\ TimeField(lv_ALSconf) = 1
    /\ lv_gainIndex = 3
    /\ lv_timeIndex = 4

\* C14: an Adjust step with a count above 10000: time index above 2 -> it
\* goes down by 1; else gain index above 0 -> it goes down by 1; else time
\* index above 0 -> it goes down by 1; else, at (0,0), both stay.  Exactly
\* one index changes unless the setting is (0,0).
C14_TooStrongFirstRule ==
    [][(AdjustStep /\ lv_ALSdata > 10000) =>
          /\ IF lv_timeIndex > 2
             THEN lv_timeIndex' = lv_timeIndex - 1
                  /\ lv_gainIndex' = lv_gainIndex
             ELSE IF lv_gainIndex > 0
             THEN lv_gainIndex' = lv_gainIndex - 1
                  /\ lv_timeIndex' = lv_timeIndex
             ELSE IF lv_timeIndex > 0
             THEN lv_timeIndex' = lv_timeIndex - 1
                  /\ lv_gainIndex' = lv_gainIndex
             ELSE lv_gainIndex' = 0 /\ lv_timeIndex' = 0
          /\ (lv_gainIndex = 0 /\ lv_timeIndex = 0)
                \/ (lv_gainIndex' # lv_gainIndex)
                      # (lv_timeIndex' # lv_timeIndex)
          /\ AdjustOnlyIndices]_vars

\* the first rule has acted: a count above 10000 read at the setting (1,5)
\* (gain code 3, time code 3), the setting now (1,4)
C14_Witness ==
    /\ InReadAW
    /\ pc = "sleep"
    /\ lv_ALSdata > 10000
    /\ GainField(lv_ALSconf) = 3
    /\ TimeField(lv_ALSconf) = 3
    /\ lv_gainIndex = 1
    /\ lv_timeIndex = 4

\* C15 as stated: an Adjust step changes the gain index only when the time
\* index is 2 when the step begins; while it is not 2, only the time index
\* moves.
C15_GainOnlyAtRest ==
    [][(AdjustStep /\ lv_timeIndex # 2) => lv_gainIndex' = lv_gainIndex]_vars

\* C15 amended: an Adjust step changes the gain index only when the time
\* index is at least 2 (count below 1000) or at most 2 (count above 10000)
\* when the step begins, and it then leaves the time index alone; once a
\* check() has succeeded, the gain index is changed only when the time index
\* is 2.
C15_GainOnlyFromRestSide ==
    [][(AdjustStep /\ lv_gainIndex' # lv_gainIndex) =>
          /\ lv_timeIndex' = lv_timeIndex
          /\ lv_ALSdata < 1000 => lv_timeIndex >= 2
          /\ lv_ALSdata > 10000 => lv_timeIndex <= 2
          /\ primed => lv_timeIndex = 2]_vars

\* the gain index went up at time index 4: a count below 1000 read at the
\* setting (0,4) (gain code 2, time code 2), the setting now (1,4)
C15_Witness ==
    /\ InReadAW
    /\ pc = "sleep"
    /\ lv_ALSdata < 1000
    /\ GainField(lv_ALSconf) = 2
    /\ TimeField(lv_ALSconf) = 2
    /\ lv_gainIndex = 1
    /\ lv_timeIndex = 4

\* the setting is one of the two corners of the table
CornerSetting ==
    \/ lv_gainIndex = 3 /\ lv_timeIndex = 5
    \/ lv_gainIndex = 0 /\ lv_timeIndex = 0

\* what holds in every state for C16
C16_GuardAfterApply ==
    /\ exitVia = "corner" =>
          /\ InReadAW
          /\ pc \in {"final", "idle"}
          /\ CornerSetting
          /\ nDelays >= 1
          /\ nWrites = 3 * nDelays
    /\ (InReadAW /\ pc \in {"guard", "final", "idle"}
          /\ ~(exitVia = "accept" /\ k = 0)) =>
          /\ nDelays >= 1
          /\ nWrites >= 3

\* C16: when the setting after an Apply and its delay is (3,5) or (0,0) the
\* loop is left at once: the next step is Finalize, which reads the two data
\* registers and writes nothing, and no evaluation, adjustment or write
\* follows in that call.  The guard comes only after an Apply: a call whose
\* first count is out of range makes at least one Apply (3 writes) and one
\* delay, also when the setting cannot change.
C16_CornerEndsLoop ==
    /\ []C16_GuardAfterApply
    /\ [][(pc = "guard" /\ CornerSetting) =>
             pc' = "final" /\ exitVia' = "corner"]_vars
    /\ [][(exitVia = "corner" /\ exitVia' = "corner") =>
             /\ pc = "final"
             /\ pc' = "idle"
             /\ UNCHANGED <<regConf, regPSM, k, lv_gainIndex, lv_timeIndex,
                            lv_ALSconf, nWrites, nDelays>>]_vars

\* a count above 10000 at the setting (0,0): nothing to adjust, one Apply
\* and one delay all the same, then the guard has ended the loop
C16_Witness ==
    /\ Returned
    /\ exitVia = "corner"
    /\ k = 0
    /\ seen = "same"
    /\ held > 10000
    /\ lv_gainIndex = 0
    /\ lv_timeIndex = 0
    /\ nDelays = 1
    /\ nWrites = 3

\* C17: an Adjust step that changes the setting changes its coefficient
\* lvc_tableResol[gainIndex][timeIndex] strictly: down when the count is
\* below 1000, up when it is above 10000; a step that leaves the setting as
\* it was happens only at (3,5) with a count below 1000 or at (0,0) with one
\* above 10000.
C17_CoefficientMovesStrictly ==
    [][AdjustStep =>
          IF lv_gainIndex' = lv_gainIndex /\ lv_timeIndex' = lv_timeIndex
          THEN \/ lv_ALSdata < 1000 /\ lv_gainIndex = 3 /\ lv_timeIndex = 5
               \/ lv_ALSdata > 10000 /\ lv_gainIndex = 0 /\ lv_timeIndex = 0
          ELSE /\ lv_ALSdata < 1000 =>
                     ResolMult[lv_gainIndex'][lv_timeIndex']
                        < ResolMult[lv_gainIndex][lv_timeIndex]
               /\ lv_ALSdata > 10000 =>
                     ResolMult[lv_gainIndex'][lv_timeIndex']
                        > ResolMult[lv_gainIndex][lv_timeIndex]]_vars

\* a count below 1000 read at the setting (1,2) (gain code 3, time code 0,
\* coefficient 0.2688), the setting now (2,2) (coefficient 0.0672)
C17_Witness ==
    /\ InReadAW
    /\ pc = "sleep"
    /\ lv_ALSdata < 1000
    /\ GainField(lv_ALSconf) = 3
    /\ TimeField(lv_ALSconf) = 0
    /\ lv_gainIndex = 2
    /\ lv_timeIndex = 2
    /\ ResolMult[1][2] = 64
    /\ ResolMult[2][2] = 16

\* C18: an Apply step is three writes of ALS_CONF in this order: one that
\* sets bit 0, the one with the new gain and time codes, one that clears
\* bit 0.  Bit 0 is 1 from the first to the third (the second does not wake
\* the device) and 0 after the third.
C18_ShutdownDuringApply ==
    InReadAW =>
        /\ pc = "write" => nWrites % 3 = 1 /\ Bit(regConf, 0) = 1
        /\ pc = "wake" =>
              /\ nWrites % 3 = 2
              /\ Bit(regConf, 0) = 1
              /\ GainField(regConf) = lvc_ALSgain[lv_gainIndex]
              /\ TimeField(regConf) = lvc_ALStime[lv_timeIndex]
        /\ pc \in {"delay", "guard"} =>
              nWrites % 3 = 0 /\ Bit(regConf, 0) = 0

\* the device was awake when the call began: after the write of the new
\* gain and time codes, before wakeUp(), bit 0 is 0 already
C18_Witness ==
    /\ InReadAW
    /\ pc = "wake"
    /\ Bit(confAtEntry, 0) = 0
    /\ Bit(lv_ALSconf, 0) = 0
    /\ Bit(regConf, 0) = 0
    /\ nWrites = 2

\* the gain and time fields of ALS_CONF hold the codes of the setting
\* readAW works with
LiveSetting ==
    /\ lv_gainIndex \in 0..3
    /\ lv_timeIndex \in 0..5
    /\ GainField(regConf) = <<2, 3, 0, 1>>[lv_gainIndex + 1]
    /\ TimeField(regConf) = <<12, 8, 0, 1, 2, 3>>[lv_timeIndex + 1]

\* C19 as stated: when the final sample is read and the coefficient taken,
\* whichever way the loop was left, the gain and time fields of ALS_CONF
\* hold the codes of the final (gainIndex, timeIndex), for every initial
\* configuration.
C19_CoefficientOfLiveSetting ==
    (InReadAW /\ pc \in {"final", "idle"}) => LiveSetting

\* C19 amended: the same, for every initial configuration whose time field
\* holds a code of the table and for every call that has made an Apply;
\* when the first pass accepts its count on a register whose time field
\* holds no code of the table, the coefficient is that of time index 0
\* while the register keeps its code.
C19_CoefficientOfWrittenSetting ==
    (InReadAW /\ pc \in {"final", "idle"}) =>
        IF unknownCode /\ nDelays = 0
        THEN /\ lv_timeIndex = 0
             /\ TimeField(regConf) \notin {12, 8, 0, 1, 2, 3}
             /\ GainField(regConf) = <<2, 3, 0, 1>>[lv_gainIndex + 1]
             /\ exitVia = "accept"
             /\ regConf = confAtEntry
        ELSE LiveSetting

\* a call that began on a time code of no table, made Apply steps and
\* accepted a later count has returned
C19_Witness ==
    /\ Returned
    /\ unknownCode
    /\ nDelays >= 2
    /\ exitVia = "accept"
    /\ LiveSetting

\* the settings reached from (0,2)
Path ==
    {<<0, 0>>, <<0, 1>>, <<0, 2>>, <<1, 2>>, <<2, 2>>, <<3, 2>>, <<3, 3>>,
     <<3, 4>>, <<3, 5>>}

\* the gain and time fields of ALS_CONF hold the codes of a setting of Path
RegOnPath ==
    \E st \in Path :
        /\ GainField(regConf) = <<2, 3, 0, 1>>[st[1] + 1]
        /\ TimeField(regConf) = <<12, 8, 0, 1, 2, 3>>[st[2] + 1]

=============================================================================
